---- MODULE Spec2Model ----
(***************************************************************************)
(* Model of the html-auto-header-ids editor extension (src/extension.ts).  *)
(*                                                                         *)
(* Text is modelled at character level: a string is a sequence of          *)
(* one-character strings, so that the regular expressions, the substring   *)
(* tests and the slug normalisation of the source are computed as the      *)
(* source computes them.                                                   *)
(***************************************************************************)
EXTENDS Integers, Sequences, FiniteSets, TLC

VARIABLES
    fullText,       \* the document held by the active editor
    headers,        \* the raw value of the setting auto-header-ids.headersToProcess
    usedIds,        \* the module-level Set<string> of slugs issued
    lastCommand,    \* the command that ran last ("none" before any)
    prevText,       \* the document as the last command read it
    edits,          \* the replacements / insertion the last command handed to the editor
    issued,         \* the values slugify returned during the last addIds run, in call order
    tocLines,       \* the lines the last createTOC built
    lastLevel,      \* the value of lastLevel when the last createTOC ended
    message,        \* the notification the last command showed
    markRuns,       \* number of consecutive markExistingIds runs that ended (capped at 2)
    commands        \* number of commands that ran to their end

vars == <<fullText, headers, usedIds, lastCommand, prevText, edits, issued,
          tocLines, lastLevel, message, markRuns, commands>>

\* ------------------------------------------------------------------ bounds

MaxHeadings == 3        \* headings of a document of Spec and SpecToc
MaxFewHeadings == 2     \* headings of a document of SpecSlug, SpecMark, SpecNoLevels
MaxCommands == 2        \* commands run in one behaviour

\* -------------------------------------------------------------- characters

UpperCase ==
    <<"A","B","C","D","E","F","G","H","I","J","K","L","M",
      "N","O","P","Q","R","S","T","U","V","W","X","Y","Z">>

LowerCase ==
    <<"a","b","c","d","e","f","g","h","i","j","k","l","m",
      "n","o","p","q","r","s","t","u","v","w","x","y","z">>

Digits == <<"0","1","2","3","4","5","6","7","8","9">>

Range(s) == { s[i] : i \in DOMAIN s }

UpperSet == Range(UpperCase)

LowerOf == [c \in UpperSet |-> LowerCase[CHOOSE k \in DOMAIN UpperCase : UpperCase[k] = c]]

\* String.prototype.toLowerCase on one character
ToLowerChar(c) == IF c \in UpperSet THEN LowerOf[c] ELSE c

ToLowerCase(s) == [i \in DOMAIN s |-> ToLowerChar(s[i])]

\* the regular-expression class \s
IsSpace(c) == c \in {" ", "\t", "\n"}

\* the characters of the regular-expression class [\w-]
WordOrHyphen ==
    Range(LowerCase) \cup Range(UpperCase) \cup Range(Digits) \cup {"_", "-"}

IsWordOrHyphen(c) == c \in WordOrHyphen

\* ----------------------------------------------------------------- strings

Max(S) == CHOOSE x \in S : \A y \in S : x >= y

\* two characters are equal; ci = the regex flag i
SameChar(a, b, ci) == a = b \/ (ci /\ ToLowerChar(a) = ToLowerChar(b))

\* pat occurs in text at position i (1-based)
MatchesAt(text, pat, i, ci) ==
    /\ i >= 1
    /\ i + Len(pat) - 1 <= Len(text)
    /\ \A k \in DOMAIN pat : SameChar(text[i + k - 1], pat[k], ci)

\* String.prototype.includes (case-sensitive)
Includes(text, pat) ==
    \E i \in 1..(Len(text) + 1) : MatchesAt(text, pat, i, FALSE)

\* position of the first c at or after i, 0 when there is none
FindChar(text, c, i) ==
    IF \E j \in i..Len(text) : text[j] = c
    THEN CHOOSE j \in i..Len(text) :
             text[j] = c /\ \A k \in i..(j - 1) : text[k] # c
    ELSE 0

\* position of the first occurrence of pat at or after i, 0 when there is none
FindFrom(text, pat, i, ci) ==
    IF \E j \in i..Len(text) : MatchesAt(text, pat, j, ci)
    THEN CHOOSE j \in i..Len(text) :
             MatchesAt(text, pat, j, ci)
                 /\ \A k \in i..(j - 1) : ~MatchesAt(text, pat, k, ci)
    ELSE 0

\* String.prototype.trim
RECURSIVE TrimStart(_)
TrimStart(s) ==
    IF s # <<>> /\ IsSpace(Head(s)) THEN TrimStart(Tail(s)) ELSE s

RECURSIVE TrimEnd(_)
TrimEnd(s) ==
    IF s # <<>> /\ IsSpace(s[Len(s)]) THEN TrimEnd(SubSeq(s, 1, Len(s) - 1)) ELSE s

Trim(s) == TrimEnd(TrimStart(s))

\* String.prototype.replace(/<[^>]*>/g, '')
RECURSIVE StripTags(_)
StripTags(s) ==
    IF s = <<>> THEN <<>>
    ELSE IF Head(s) = "<" /\ FindChar(s, ">", 2) # 0
         THEN StripTags(SubSeq(s, FindChar(s, ">", 2) + 1, Len(s)))
         ELSE <<Head(s)>> \o StripTags(Tail(s))

\* String.prototype.replace(pat, rep) with the g flag, for a literal pattern
RECURSIVE ReplaceAll(_, _, _)
ReplaceAll(s, pat, rep) ==
    IF s = <<>> THEN <<>>
    ELSE IF MatchesAt(s, pat, 1, FALSE)
         THEN rep \o ReplaceAll(SubSeq(s, Len(pat) + 1, Len(s)), pat, rep)
         ELSE <<Head(s)>> \o ReplaceAll(Tail(s), pat, rep)

\* the decimal digits of n, as the template literal `${counter}` writes them
RECURSIVE NumberToString(_)
NumberToString(n) ==
    IF n < 10 THEN <<Digits[n + 1]>>
    ELSE NumberToString(n \div 10) \o <<Digits[(n % 10) + 1]>>

\* the string '  '.repeat(n); repeat(NaN) is the empty string
NaN == -1

RECURSIVE Repeat2(_)
Repeat2(n) == IF n <= 0 THEN <<>> ELSE <<" ", " ">> \o Repeat2(n - 1)

\* ------------------------------------------------------- string literals

LtH == <<"<", "h">>                                   \* '<h'
Gt == <<">">>                                         \* '>'
LtSlashH == <<"<", "/", "h">>                         \* '</h'
IdEq == <<"i", "d", "=">>                             \* 'id='
IdEqQuote == <<"i", "d", "=", "\"">>                  \* 'id="'
SpaceIdEqQuote == <<" ">> \o IdEqQuote                \* ' id="'
Quote == <<"\"">>                                     \* '"'
ClassEq == <<"c", "l", "a", "s", "s", "=">>           \* 'class='
ClassEqQuote == ClassEq \o Quote                      \* 'class="'
NoToc == <<"n", "o", "-", "t", "o", "c">>             \* 'no-toc'
SpaceNoToc == <<" ">> \o NoToc                        \* ' no-toc'
ClassNoToc == ClassEqQuote \o NoToc \o Quote          \* 'class="no-toc"'
SpaceClassNoToc == <<" ">> \o ClassNoToc              \* ' class="no-toc"'
Nbsp == <<"&", "n", "b", "s", "p", ";">>              \* '&nbsp;'
Amp == <<"&", "a", "m", "p", ";">>                    \* '&amp;'
UlOpen == <<"<", "u", "l", ">">>                      \* '<ul>'
UlClose == <<"<", "/", "u", "l", ">">>                \* '</ul>'
LiOpen == <<"<","l","i",">","<","a"," ","h","r","e","f","=","\"","#">>   \* '<li><a href="#'
LiClose == <<"<","/","a",">","<","/","l","i",">">>    \* '</a></li>'

\* ------------------------------------------------------------ the setting

\* getHeadersToProcess: the array entries that are strings matching /^[1-6]$/,
\* or ['1', '2'] when the setting is no array
GetHeadersToProcess(setting) ==
    IF setting.isArray
    THEN LET kept == SelectSeq(setting.items,
                        LAMBDA h : /\ h.isString
                                   /\ Len(h.value) = 1
                                   /\ h.value[1] \in {"1", "2", "3", "4", "5", "6"})
         IN  [i \in 1..Len(kept) |-> kept[i].value]
    ELSE << <<"1">>, <<"2">> >>

\* the alternatives of the group (${headersToProcess.join('|')}): joining an
\* empty array gives the empty pattern, which matches the empty string
Alternatives(headersToProcess) ==
    IF headersToProcess = <<>> THEN << <<>> >> ELSE headersToProcess

\* ------------------------------------------------------------ the scanner

NoMatch == [ok |-> FALSE]

\* <h(alt)([^>]*)>([\s\S]*?)<\/h\1> with flag i, anchored at position p
HeaderMatchWith(text, p, alt) ==
    LET q == p + 2 + Len(alt)
        gt == FindChar(text, ">", q)
        closeTag == LtSlashH \o alt \o Gt
        cl == IF gt = 0 THEN 0 ELSE FindFrom(text, closeTag, gt + 1, TRUE)
    IN  IF MatchesAt(text, LtH \o alt, p, TRUE) /\ gt # 0 /\ cl # 0
        THEN [ok |-> TRUE,
              index |-> p - 1,
              length |-> cl + Len(closeTag) - p,
              tagType |-> SubSeq(text, p + 2, p + 1 + Len(alt)),
              attributes |-> SubSeq(text, q, gt - 1),
              headerText |-> SubSeq(text, gt + 1, cl - 1)]
        ELSE NoMatch

RECURSIVE HeaderMatchAt(_, _, _, _)
HeaderMatchAt(text, p, alts, k) ==
    IF k > Len(alts) THEN NoMatch
    ELSE LET m == HeaderMatchWith(text, p, alts[k])
         IN  IF m.ok THEN m ELSE HeaderMatchAt(text, p, alts, k + 1)

\* Array.from(fullText.matchAll(headerRegex)), scanning from position p
RECURSIVE MatchAllHeaders(_, _, _)
MatchAllHeaders(text, p, alts) ==
    IF p > Len(text) \/ FindChar(text, "<", p) = 0 THEN <<>>
    ELSE IF text[p] # "<" THEN MatchAllHeaders(text, FindChar(text, "<", p), alts)
    ELSE LET m == HeaderMatchAt(text, p, alts, 1)
         IN  IF m.ok THEN <<m>> \o MatchAllHeaders(text, p + m.length, alts)
                     ELSE MatchAllHeaders(text, p + 1, alts)

\* <h(alt)([^>]*)id="([^"]*)"([^>]*)>([\s\S]*?)<\/h\1> with flag i, anchored
\* at p. The greedy group 2 holds no '>', so 'id="' starts at or before the
\* first '>'; the longest group 2 that lets the rest match wins.
TocMatchWith(text, p, alt) ==
    LET q == p + 2 + Len(alt)
        gt0 == FindChar(text, ">", q)
        limit == IF gt0 = 0 THEN Len(text) ELSE gt0
        closeTag == LtSlashH \o alt \o Gt
        QuoteAfter(e) == FindChar(text, "\"", e + 4)
        GtAfter(e) == IF QuoteAfter(e) = 0 THEN 0
                      ELSE FindChar(text, ">", QuoteAfter(e) + 1)
        CloseAfter(e) == IF GtAfter(e) = 0 THEN 0
                         ELSE FindFrom(text, closeTag, GtAfter(e) + 1, TRUE)
        good == { e \in q..limit :
                    MatchesAt(text, IdEqQuote, e, TRUE) /\ CloseAfter(e) # 0 }
        e == Max(good)
    IN  IF MatchesAt(text, LtH \o alt, p, TRUE) /\ good # {}
        THEN [ok |-> TRUE,
              index |-> p - 1,
              length |-> CloseAfter(e) + Len(closeTag) - p,
              tagType |-> SubSeq(text, p + 2, p + 1 + Len(alt)),
              before |-> SubSeq(text, q, e - 1),
              id |-> SubSeq(text, e + 4, QuoteAfter(e) - 1),
              after |-> SubSeq(text, QuoteAfter(e) + 1, GtAfter(e) - 1),
              headerText |-> SubSeq(text, GtAfter(e) + 1, CloseAfter(e) - 1)]
        ELSE NoMatch

RECURSIVE TocMatchAt(_, _, _, _)
TocMatchAt(text, p, alts, k) ==
    IF k > Len(alts) THEN NoMatch
    ELSE LET m == TocMatchWith(text, p, alts[k])
         IN  IF m.ok THEN m ELSE TocMatchAt(text, p, alts, k + 1)

RECURSIVE MatchAllTocHeaders(_, _, _)
MatchAllTocHeaders(text, p, alts) ==
    IF p > Len(text) \/ FindChar(text, "<", p) = 0 THEN <<>>
    ELSE IF text[p] # "<" THEN MatchAllTocHeaders(text, FindChar(text, "<", p), alts)
    ELSE LET m == TocMatchAt(text, p, alts, 1)
         IN  IF m.ok THEN <<m>> \o MatchAllTocHeaders(text, p + m.length, alts)
                     ELSE MatchAllTocHeaders(text, p + 1, alts)

\* ---------------------------------------------------------------- slugify

MAX_LENGTH == 15

\* .replace(/\s+/g, '-')
RECURSIVE SpacesToHyphen(_)
SpacesToHyphen(s) ==
    IF s = <<>> THEN <<>>
    ELSE IF IsSpace(Head(s)) THEN <<"-">> \o SpacesToHyphen(TrimStart(s))
    ELSE <<Head(s)>> \o SpacesToHyphen(Tail(s))

\* .replace(/[^\w-]+/g, '')
RemoveNonWord(s) == SelectSeq(s, IsWordOrHyphen)

\* .replace(/--+/g, '-')
RECURSIVE CollapseHyphens(_)
CollapseHyphens(s) ==
    IF Len(s) < 2 THEN s
    ELSE IF s[1] = "-" /\ s[2] = "-" THEN CollapseHyphens(Tail(s))
    ELSE <<Head(s)>> \o CollapseHyphens(Tail(s))

\* .replace(/^-+/, '')
RECURSIVE StripLeadingHyphens(_)
StripLeadingHyphens(s) ==
    IF s # <<>> /\ Head(s) = "-" THEN StripLeadingHyphens(Tail(s)) ELSE s

\* .replace(/-+$/, '')
RECURSIVE StripTrailingHyphens(_)
StripTrailingHyphens(s) ==
    IF s # <<>> /\ s[Len(s)] = "-"
    THEN StripTrailingHyphens(SubSeq(s, 1, Len(s) - 1)) ELSE s

\* text.replace(/&nbsp;/g, ' ').replace(/&amp;/g, '&')
DecodeEntities(text) == ReplaceAll(ReplaceAll(text, Nbsp, <<" ">>), Amp, <<"&">>)

\* lines 198-204: the normalised slug before truncation
Normalise(text) ==
    StripTrailingHyphens(StripLeadingHyphens(CollapseHyphens(RemoveNonWord(
        SpacesToHyphen(Trim(ToLowerCase(DecodeEntities(text))))))))

\* a slip that keeps the hyphen the cut leaves last
TruncateKeepHyphen(slug) ==
    IF Len(slug) > MAX_LENGTH THEN SubSeq(slug, 1, MAX_LENGTH) ELSE slug

\* lines 206-211: cut to MAX_LENGTH, dropping one hyphen the cut leaves last
Truncate(slug) ==
    IF Len(slug) > MAX_LENGTH
    THEN LET cut == SubSeq(slug, 1, MAX_LENGTH)
         IN  IF cut[Len(cut)] = "-" THEN SubSeq(cut, 1, Len(cut) - 1) ELSE cut
    ELSE slug

\* the slug of lines 197-211, before the uniqueness loop
BaseSlug(text) == Truncate(Normalise(text))

\* a slip that tests once (if) where the source loops (while)
UniqueSlugOnce(slug, uniqueSlug, counter, used) ==
    IF uniqueSlug \in used
    THEN slug \o <<"-">> \o NumberToString(counter)
    ELSE uniqueSlug

\* lines 213-218: the loop  while (usedIds.has(uniqueSlug)) ...
RECURSIVE UniqueSlug(_, _, _, _)
UniqueSlug(slug, uniqueSlug, counter, used) ==
    IF uniqueSlug \in used
    THEN UniqueSlug(slug, slug \o <<"-">> \o NumberToString(counter), counter + 1, used)
    ELSE uniqueSlug

\* slugify(text) called with usedIds = used: the value returned
Slugify(text, used) == UniqueSlug(BaseSlug(text), BaseSlug(text), 1, used)

\* usedIds after slugify(text): line 219
UsedAfter(text, used) == used \cup {Slugify(text, used)}

\* ------------------------------------------------------------- the editor

\* editBuilder.replace(new Range(positionAt(startOffset), positionAt(endOffset)), text);
\* an insertion is a replacement of an empty range
Replace(startOffset, endOffset, text) ==
    [startOffset |-> startOffset, endOffset |-> endOffset, text |-> text]

ApplyEdit(text, e) ==
    SubSeq(text, 1, e.startOffset) \o e.text \o SubSeq(text, e.endOffset + 1, Len(text))

\* editor.edit applies every edit of the builder to the text the offsets were
\* taken from; the commands record their edits from the last match to the
\* first, so applying them in that order leaves the offsets of the rest valid
RECURSIVE ApplyEdits(_, _)
ApplyEdits(text, es) ==
    IF es = <<>> THEN text ELSE ApplyEdits(ApplyEdit(text, Head(es)), Tail(es))

\* -------------------------------------------------- auto-header-ids.addIds

\* a slip that tests startsWith in place of includes
HasIdAtStart(attributes) == MatchesAt(attributes, IdEq, 1, FALSE)

\* line 33: attributes.includes('id=')
HasId(attributes) == Includes(attributes, IdEq)

\* line 37: headerText.replace(/<[^>]*>/g, '').trim()
TextContent(headerText) == Trim(StripTags(headerText))

\* line 39
IdReplacement(m, id) ==
    LtH \o m.tagType \o m.attributes \o SpaceIdEqQuote \o id \o Quote \o Gt
        \o m.headerText \o LtSlashH \o m.tagType \o Gt

\* lines 26-46: the loop from the last match to the first; acc holds the
\* used-slug set, the edits and the slugs returned so far
RECURSIVE AddIdsLoop(_, _, _)
AddIdsLoop(matches, i, acc) ==
    IF i < 1 THEN acc
    ELSE LET m == matches[i]
         IN  IF HasId(m.attributes)
             THEN AddIdsLoop(matches, i - 1, acc)
             ELSE LET textContent == TextContent(m.headerText)
                      id == Slugify(textContent, acc.used)
                  IN  AddIdsLoop(matches, i - 1,
                         [used |-> UsedAfter(textContent, acc.used),
                          edits |-> Append(acc.edits,
                                      Replace(m.index, m.index + m.length,
                                              IdReplacement(m, id))),
                          issued |-> Append(acc.issued, id)])

AddIds ==
    LET headersToProcess == GetHeadersToProcess(headers)
        matches == MatchAllHeaders(fullText, 1, Alternatives(headersToProcess))
        run == AddIdsLoop(matches, Len(matches),
                          [used |-> {}, edits |-> <<>>, issued |-> <<>>])
    IN  /\ commands < MaxCommands
        /\ commands' = commands + 1
        /\ lastCommand' = "addIds"
        /\ prevText' = fullText
        /\ markRuns' = 0
        /\ UNCHANGED <<headers, tocLines, lastLevel>>
        /\ IF Len(matches) = 0
           THEN /\ usedIds' = {}
                /\ message' = "No matching headers found to add IDs."
                /\ edits' = <<>>
                /\ issued' = <<>>
                /\ UNCHANGED fullText
           ELSE /\ usedIds' = run.used
                /\ edits' = run.edits
                /\ issued' = run.issued
                /\ fullText' = ApplyEdits(fullText, run.edits)
                /\ message' = "IDs added to headers without one!"

\* ----------------------------------------- auto-header-ids.markExistingIds

\* attributes.match(/class="([^"]*)"/i): where the match starts and where its
\* closing quote is; start = 0 when there is no match
ClassMatch(attributes) ==
    LET start == FindFrom(attributes, ClassEqQuote, 1, TRUE)
        close == IF start = 0 THEN 0
                 ELSE FindChar(attributes, "\"", start + Len(ClassEqQuote))
    IN  IF start = 0 \/ close = 0
        THEN [start |-> 0, close |-> 0, existingClasses |-> <<>>]
        ELSE [start |-> start, close |-> close,
              existingClasses |->
                  SubSeq(attributes, start + Len(ClassEqQuote), close - 1)]

\* line 104
UpdatedClasses(existingClasses) ==
    IF Includes(existingClasses, NoToc) THEN existingClasses
    ELSE existingClasses \o SpaceNoToc

\* line 105: attributes.replace(classRegex, `class="${updatedClasses}"`).
\* (The class lists of the model hold no '$', so the replacement string
\* holds no replacement pattern.)
ReplaceClass(attributes) ==
    LET cm == ClassMatch(attributes)
    IN  SubSeq(attributes, 1, cm.start - 1)
          \o ClassEqQuote \o UpdatedClasses(cm.existingClasses) \o Quote
          \o SubSeq(attributes, cm.close + 1, Len(attributes))

\* lines 92-112: the edits one match gives (none when 'class=' is there but
\* the class regex does not match)
MarkEdits(m) ==
    IF ~Includes(m.attributes, ClassEq)
    THEN << Replace(m.index, m.index + m.length,
               LtH \o m.tagType \o m.attributes \o SpaceClassNoToc \o Gt
                   \o m.headerText \o LtSlashH \o m.tagType \o Gt) >>
    ELSE IF ClassMatch(m.attributes).start # 0
    THEN << Replace(m.index, m.index + m.length,
               LtH \o m.tagType \o ReplaceClass(m.attributes) \o Gt
                   \o m.headerText \o LtSlashH \o m.tagType \o Gt) >>
    ELSE <<>>

\* lines 85-113: from the last match to the first
RECURSIVE MarkLoop(_, _)
MarkLoop(matches, i) ==
    IF i < 1 THEN <<>> ELSE MarkEdits(matches[i]) \o MarkLoop(matches, i - 1)

MarkExistingIds ==
    \E confirmation \in {"Proceed", "undefined"} :
        /\ commands < MaxCommands
        /\ IF confirmation # "Proceed"
           THEN UNCHANGED vars
           ELSE LET headersToProcess == GetHeadersToProcess(headers)
                    matches == MatchAllHeaders(fullText, 1, Alternatives(headersToProcess))
                    es == MarkLoop(matches, Len(matches))
                IN  /\ commands' = commands + 1
                    /\ lastCommand' = "markExistingIds"
                    /\ prevText' = fullText
                    /\ markRuns' = IF markRuns < 2 THEN markRuns + 1 ELSE 2
                    /\ UNCHANGED <<headers, usedIds, issued, tocLines, lastLevel>>
                    /\ IF Len(matches) = 0
                       THEN /\ message' = "No matching headers found to mark."
                            /\ edits' = <<>>
                            /\ UNCHANGED fullText
                       ELSE /\ edits' = es
                            /\ fullText' = ApplyEdits(fullText, es)
                            /\ message' = "All selected headers marked with no-toc class!"

\* ----------------------------------------------- auto-header-ids.createTOC

\* parseInt(tagType): the tag type is one digit, or empty when the group of
\* the regular expression is empty, and parseInt('') is NaN
ParseInt(tagType) ==
    IF tagType = <<>> THEN NaN
    ELSE CHOOSE n \in 0..9 : Digits[n + 1] = tagType[1]

\* a < b in JavaScript: false when either side is NaN
Less(a, b) == a # NaN /\ b # NaN /\ a < b

\* lines 153-156
RECURSIVE CloseLevels(_, _, _)
CloseLevels(lines, last, currentLevel) ==
    IF Less(currentLevel, last)
    THEN CloseLevels(Append(lines, Repeat2(last) \o UlClose),
                     last - 1, currentLevel)
    ELSE [lines |-> lines, lastLevel |-> last]

\* a slip that opens one level (if) where the source loops (while)
OpenLevelsOnce(lines, last, currentLevel) ==
    IF Less(last, currentLevel)
    THEN [lines |-> Append(lines, Repeat2(last) \o UlOpen), lastLevel |-> last + 1]
    ELSE [lines |-> lines, lastLevel |-> last]

\* lines 158-161
RECURSIVE OpenLevels(_, _, _)
OpenLevels(lines, last, currentLevel) ==
    IF Less(last, currentLevel)
    THEN OpenLevels(Append(lines, Repeat2(last) \o UlOpen),
                    last + 1, currentLevel)
    ELSE [lines |-> lines, lastLevel |-> last]

\* line 145
IsNoToc(m) == Includes(m.before \o m.after, ClassNoToc)

\* line 163
ItemLine(m) ==
    Repeat2(ParseInt(m.tagType)) \o LiOpen \o m.id \o Quote \o Gt
        \o Trim(StripTags(m.headerText)) \o LiClose

\* lines 143-165: the loop over the matches, from the first to the last
RECURSIVE TocLoop(_, _, _, _)
TocLoop(matches, i, lines, last) ==
    IF i > Len(matches) THEN [lines |-> lines, lastLevel |-> last]
    ELSE IF IsNoToc(matches[i]) THEN TocLoop(matches, i + 1, lines, last)
    ELSE LET currentLevel == ParseInt(matches[i].tagType)
             closed == CloseLevels(lines, last, currentLevel)
             opened == OpenLevels(closed.lines, closed.lastLevel, currentLevel)
         IN  TocLoop(matches, i + 1, Append(opened.lines, ItemLine(matches[i])),
                     currentLevel)

\* a slip that leaves out the closing loop of lines 167-170
BuildTocNoClose(matches) == TocLoop(matches, 1, <<>>, 0)

\* lines 140-170: the lines of the table of contents, and lastLevel at the end
BuildToc(matches) ==
    LET looped == TocLoop(matches, 1, <<>>, 0)
    IN  CloseLevels(looped.lines, looped.lastLevel, 0)

\* tocLines.join('\n')
RECURSIVE Join(_)
Join(lines) ==
    IF lines = <<>> THEN <<>>
    ELSE IF Len(lines) = 1 THEN lines[1]
    ELSE lines[1] \o <<"\n">> \o Join(Tail(lines))

\* editor.selection.active: the start or the end of the document
CursorOffsets(text) == {0, Len(text)}

CreateTOC ==
    LET headersToProcess == GetHeadersToProcess(headers)
        matches == MatchAllTocHeaders(fullText, 1, Alternatives(headersToProcess))
        built == BuildToc(matches)
    IN  /\ commands < MaxCommands
        /\ commands' = commands + 1
        /\ lastCommand' = "createTOC"
        /\ prevText' = fullText
        /\ markRuns' = 0
        /\ UNCHANGED <<headers, usedIds, issued>>
        /\ IF Len(matches) = 0
           THEN /\ message' = "No header tags with IDs found to create a Table of Contents."
                /\ edits' = <<>>
                /\ tocLines' = <<>>
                /\ UNCHANGED <<fullText, lastLevel>>
           ELSE \E currentPosition \in CursorOffsets(fullText) :
                  /\ tocLines' = built.lines
                  /\ lastLevel' = built.lastLevel
                  /\ edits' = << Replace(currentPosition, currentPosition,
                                         Join(built.lines)) >>
                  /\ fullText' = ApplyEdits(fullText, edits')
                  /\ message' = "Table of Contents created successfully!"

Next == AddIds \/ MarkExistingIds \/ CreateTOC

\* ------------------------------------------------------------- documents

H(tagType, attributes, headerText) ==
    LtH \o tagType \o attributes \o Gt \o headerText \o LtSlashH \o tagType \o Gt \o <<"\n">>

Intro == <<"I","n","t","r","o">>
Intro1 == Intro \o <<" ","1">>
RecommendationNotes ==
    <<"R","e","c","o","m","m","e","n","d","a","t","i","o","n">> \o Nbsp \o <<"N","o","t","e","s">>
RecommendationList ==
    <<"R","e","c","o","m","m","e","n","d","a","t","i","o","n"," ","L","i","s","t">>
HelloWelcome ==
    <<"H","e","l","l","o"," ">> \o Amp \o <<" ","W","e","l","c","o","m","e">>
BoldBang == <<"<","b",">","!","<","/","b",">"," ","-">>
IdAttr(id) == SpaceIdEqQuote \o id \o Quote
ClassAttr(classes) == <<" ">> \o ClassEqQuote \o classes \o Quote
Foo == <<"f","o","o">>
Bar == <<"b","a","r">>

\* the documents made of at most n of the given headings
RECURSIVE DocsOf(_, _)
DocsOf(shapes, n) ==
    IF n = 0 THEN { <<>> }
    ELSE LET shorter == DocsOf(shapes, n - 1)
         IN  shorter \cup { d \o s : d \in shorter, s \in shapes }

\* headings with and without an id, with texts whose slugs collide
IdShapes ==
    { H(<<"1">>, <<>>, Intro),
      H(<<"2">>, <<>>, Intro1),
      H(<<"1">>, IdAttr(<<"i","n","t","r","o">>), Intro) }

\* heading texts that exercise every step of slugify
SlugShapes ==
    { H(<<"1">>, <<>>, <<>>),
      H(<<"1">>, <<>>, BoldBang),
      H(<<"2">>, <<>>, RecommendationNotes),
      H(<<"2">>, <<>>, RecommendationList),
      H(<<"1">>, <<>>, HelloWelcome) }

\* the heading shapes the class handling tells apart
MarkShapes ==
    { H(<<"1">>, <<>>, <<"A">>),
      H(<<"1">>, ClassAttr(Foo), <<"A">>),
      H(<<"2">>, ClassAttr(NoToc), <<"A">>),
      H(<<"2">>, <<" ","C","L","A","S","S","=","\"","f","o","o","\"">>, <<"A">>),
      H(<<"1">>, <<" ","c","l","a","s","s","=","'","f","o","o","'">>, <<"A">>) }

\* headings with ids: the k-th heading of a document has the k-th letter as id
TocKinds == {"h1", "h4", "h2-no-toc"}

TocHeading(kind, k) ==
    LET id == <<LowerCase[k]>>
    IN  CASE kind = "h1" -> H(<<"1">>, IdAttr(id), <<"T">>)
          [] kind = "h2" -> H(<<"2">>, IdAttr(id), <<"T">>)
          [] kind = "h3" -> H(<<"3">>, IdAttr(id), <<"T">>)
          [] kind = "h4" -> H(<<"4">>, IdAttr(id), <<"T">>)
          [] kind = "h2-no-toc" -> H(<<"2">>, IdAttr(id) \o ClassAttr(NoToc), <<"T">>)
          [] kind = "h2-foo" -> H(<<"2">>, ClassAttr(Foo) \o IdAttr(id), <<"T">>)
          [] kind = "h3-foo-no-toc-bar" ->
                H(<<"3">>, ClassAttr(Foo \o SpaceNoToc \o <<" ">> \o Bar) \o IdAttr(id), <<"T">>)

RECURSIVE TocDoc(_, _)
TocDoc(kinds, k) ==
    IF k > Len(kinds) THEN <<>> ELSE TocHeading(kinds[k], k) \o TocDoc(kinds, k + 1)

\* every document of at most MaxHeadings headings of the kinds above, and the
\* documents of the specification's examples
TocDocs ==
    { TocDoc(kinds, 1) :
        kinds \in UNION { [1..n -> TocKinds] : n \in 0..MaxHeadings } }
    \cup { TocDoc(<<"h1", "h2", "h3", "h2", "h1">>, 1),
           TocDoc(<<"h1", "h3-foo-no-toc-bar", "h2">>, 1),
           TocDoc(<<"h2", "h2-foo", "h1">>, 1) }

\* tags the scanner matches only when the group of levels is empty
NoLevelShapes ==
    { H(<<>>, <<>>, <<"x">>),
      H(<<>>, IdAttr(<<"a">>), <<"x">>),
      H(<<"1">>, <<>>, <<"A">>),
      H(<<"2">>, IdAttr(<<"b">>), <<"B">>) }

\* ------------------------------------------------------------- settings

Str(value) == [isString |-> TRUE, value |-> value]
NotStr == [isString |-> FALSE, value |-> <<>>]
Unset == [isArray |-> FALSE, items |-> <<>>]
Array(items) == [isArray |-> TRUE, items |-> items]

DefaultSettings == { Unset }
TocSettings == { Array(<< Str(<<"4">>), Str(<<"1">>), Str(<<"2">>), Str(<<"3">>), Str(<<"0">>) >>) }
EmptySettings ==
    { Array(<<>>), Array(<< Str(<<"7">>) >>), Array(<< NotStr >>),
      Array(<< Str(<<"1","2">>), Str(<<"h","1">>) >>) }

\* -------------------------------------------------------- specifications

InitWith(docs, settings) ==
    /\ fullText \in docs
    /\ headers \in settings
    /\ usedIds = {}
    /\ lastCommand = "none"
    /\ prevText = <<>>
    /\ edits = <<>>
    /\ issued = <<>>
    /\ tocLines = <<>>
    /\ lastLevel = 0
    /\ message = ""
    /\ markRuns = 0
    /\ commands = 0

Init == InitWith(DocsOf(IdShapes, MaxHeadings), DefaultSettings)
Spec == Init /\ [][Next]_vars

InitSlug == InitWith(DocsOf(SlugShapes, MaxFewHeadings), {Unset})
SpecSlug == InitSlug /\ [][Next]_vars

InitMark == InitWith(DocsOf(MarkShapes, MaxFewHeadings), {Unset})
SpecMark == InitMark /\ [][Next]_vars

InitToc == InitWith(TocDocs, TocSettings)
SpecToc == InitToc /\ [][Next]_vars

InitNoLevels == InitWith(DocsOf(NoLevelShapes, MaxFewHeadings), EmptySettings)
SpecNoLevels == InitNoLevels /\ [][Next]_vars

\* ------------------------------------------------- vocabulary of the claims

\* the matches the open scan and the identifier scan find in a text
HeaderMatches(text) ==
    MatchAllHeaders(text, 1, Alternatives(GetHeadersToProcess(headers)))

TocMatches(text) ==
    MatchAllTocHeaders(text, 1, Alternatives(GetHeadersToProcess(headers)))

\* lowercase word characters and the hyphen
SlugChars == Range(LowerCase) \cup Range(Digits) \cup {"_", "-"}

OnlySlugChars(v) == \A i \in DOMAIN v : v[i] \in SlugChars

NoOuterHyphen(v) == v # <<>> => (v[1] # "-" /\ v[Len(v)] # "-")

\* a slug as it is before the uniqueness suffix
GoodBase(b) == Len(b) <= MAX_LENGTH /\ OnlySlugChars(b) /\ NoOuterHyphen(b)

\* the decimal form of a counter that starts at 1
IsCounter(d) ==
    d # <<>> /\ d[1] # "0" /\ \A i \in DOMAIN d : d[i] \in Range(Digits)

\* v is a good base, or a good base followed by '-' and a counter
BaseWithSuffix(v) ==
    \E n \in 0..Len(v) :
        /\ GoodBase(SubSeq(v, 1, n))
        /\ \/ n = Len(v)
           \/ (v[n + 1] = "-" /\ IsCounter(SubSeq(v, n + 2, Len(v))))

\* the lines of a table of contents
IsOpenLine(line) == TrimStart(line) = UlOpen
IsCloseLine(line) == TrimStart(line) = UlClose
IsItemLine(line) == MatchesAt(TrimStart(line), LiOpen, 1, FALSE)

ItemId(line) ==
    LET t == TrimStart(line)
    IN  SubSeq(t, Len(LiOpen) + 1, FindChar(t, "\"", Len(LiOpen) + 1) - 1)

Opens(lines, n) == Cardinality({ i \in 1..n : IsOpenLine(lines[i]) })
Closes(lines, n) == Cardinality({ i \in 1..n : IsCloseLine(lines[i]) })

\* the order of a table of contents: its markers, and the ids of its items
Outline(lines) ==
    [ i \in DOMAIN lines |->
        IF IsOpenLine(lines[i]) THEN "<ul>"
        ELSE IF IsCloseLine(lines[i]) THEN "</ul>"
        ELSE ItemId(lines[i]) ]

\* the index in lines of the k-th item
ItemIndex(lines, k) ==
    LET items == { i \in DOMAIN lines : IsItemLine(lines[i]) }
    IN  CHOOSE i \in items : Cardinality({ j \in items : j <= i }) = k

ItemCount(lines) == Cardinality({ i \in DOMAIN lines : IsItemLine(lines[i]) })

\* the matches the table of contents keeps
Survivors(text) == SelectSeq(TocMatches(text), LAMBDA m : ~IsNoToc(m))

\* tok is one of the space-separated tokens of a class list
HasToken(classes, tok) ==
    \E i \in 1..Len(classes) :
        /\ MatchesAt(classes, tok, i, FALSE)
        /\ (i = 1 \/ classes[i - 1] = " ")
        /\ (i + Len(tok) - 1 = Len(classes) \/ classes[i + Len(tok)] = " ")

\* the attribute string holds a class list of several tokens, one being no-toc
HasNoTocToken(attributes) ==
    LET cm == ClassMatch(attributes)
    IN  /\ cm.start # 0
        /\ cm.existingClasses # NoToc
        /\ HasToken(cm.existingClasses, NoToc)

Without(seq, k) == SubSeq(seq, 1, k - 1) \o SubSeq(seq, k + 1, Len(seq))

ExampleToc == TocDoc(<<"h1", "h2", "h3", "h2", "h1">>, 1)
GapToc == TocDoc(<<"h1", "h4">>, 1)

NothingToDo ==
    { "No matching headers found to add IDs.",
      "No matching headers found to mark.",
      "No header tags with IDs found to create a Table of Contents." }

\* ------------------------------------------------------------------ claims

\* C1: the identifiers slugify returns in one addIds run are pairwise
\* distinct, also when heading texts are equal or one text normalises to the
\* suffixed form of another.
C1_IssuedDistinct ==
    /\ \A i, j \in DOMAIN issued : i # j => issued[i] # issued[j]
    /\ usedIds = Range(issued)

\* C1 witness: 'Intro', 'Intro', 'Intro 1' were given intro-2, intro, intro-1.
C1_Witness ==
    /\ lastCommand = "addIds"
    /\ prevText = H(<<"1">>, <<>>, Intro) \o H(<<"1">>, <<>>, Intro) \o H(<<"2">>, <<>>, Intro1)
    /\ issued = << <<"i","n","t","r","o","-","1">>, <<"i","n","t","r","o">>,
                   <<"i","n","t","r","o","-","2">> >>

\* C2 as stated: every value slugify returns has at most 15 characters, only
\* lowercase word characters and hyphens, and no hyphen first or last.
C2_SlugWithinMaxLength ==
    \A k \in DOMAIN issued :
        /\ Len(issued[k]) <= MAX_LENGTH
        /\ OnlySlugChars(issued[k])
        /\ NoOuterHyphen(issued[k])

\* C2 amended: every value slugify returns is a base slug, or a base slug
\* followed by '-' and a decimal counter, where the base slug has at most 15
\* characters, only lowercase word characters and hyphens, and no hyphen first
\* or last; the value returned never ends with a hyphen.
C2_BaseWithinMaxLength ==
    \A k \in DOMAIN issued :
        /\ BaseWithSuffix(issued[k])
        /\ OnlySlugChars(issued[k])
        /\ (issued[k] # <<>> => issued[k][Len(issued[k])] # "-")

\* C2 witness: a run cut a text to 14 characters, dropping the hyphen the cut
\* left last, and returned it with a suffix, 16 characters long.
C2_Witness ==
    /\ lastCommand = "addIds"
    /\ \E k \in DOMAIN issued :
          /\ Len(issued[k]) > MAX_LENGTH
          /\ MatchesAt(prevText, RecommendationNotes, 5, FALSE)
          /\ issued[k] = BaseSlug(RecommendationNotes) \o <<"-", "1">>
          /\ Len(BaseSlug(RecommendationNotes)) = MAX_LENGTH - 1

\* C3 as stated: a second run of markExistingIds right after a first one
\* leaves the document as the first run left it.
C3_MarkIdempotent ==
    (lastCommand = "markExistingIds" /\ markRuns = 2) => fullText = prevText

\* C4 as stated: a heading with an id whose class list holds no-toc as one of
\* several tokens gets no item in the table of contents, and the table is the
\* one built without that heading.
C4_NoTocTokenExcluded ==
    lastCommand = "createTOC" =>
        LET ms == TocMatches(prevText)
        IN  \A k \in DOMAIN ms :
                HasNoTocToken(ms[k].before \o ms[k].after) =>
                    /\ \A n \in DOMAIN tocLines :
                          ~(IsItemLine(tocLines[n]) /\ ItemId(tocLines[n]) = ms[k].id)
                    /\ tocLines = BuildToc(Without(ms, k)).lines

\* C5: the table of contents is balanced: no prefix holds more '</ul>' than
\* '<ul>' lines, the whole holds as many of each, lastLevel ends at 0; levels
\* [1,2,3,2,1] with ids a..e give open a open b open c close d close e close.
C5_TocBalanced ==
    /\ \A n \in 0..Len(tocLines) : Closes(tocLines, n) <= Opens(tocLines, n)
    /\ Closes(tocLines, Len(tocLines)) = Opens(tocLines, Len(tocLines))
    /\ lastLevel = 0
    /\ (lastCommand = "createTOC" /\ prevText = ExampleToc) =>
          Outline(tocLines) =
              << "<ul>", <<"a">>, "<ul>", <<"b">>, "<ul>", <<"c">>, "</ul>",
                 <<"d">>, "</ul>", <<"e">>, "</ul>" >>

\* C5 witness: the table of the example [1,2,3,2,1] was built.
C5_Witness ==
    /\ lastCommand = "createTOC"
    /\ prevText = ExampleToc
    /\ Len(tocLines) = 11

\* C6: every item is emitted when the number of open lists equals its
\* heading's level; between the items of two surviving headings of levels a
\* and b lie exactly b - a '<ul>' lines when a < b, exactly a - b '</ul>'
\* lines when b < a, and nothing when a = b.
C6_ItemsAtTheirLevel ==
    lastCommand = "createTOC" =>
        LET sv == Survivors(prevText)
            Level(k) == ParseInt(sv[k].tagType)
            At(k) == ItemIndex(tocLines, k)
        IN  /\ ItemCount(tocLines) = Len(sv)
            /\ \A k \in DOMAIN sv :
                  /\ ItemId(tocLines[At(k)]) = sv[k].id
                  /\ Opens(tocLines, At(k)) - Closes(tocLines, At(k)) = Level(k)
            /\ \A k \in 1..(Len(sv) - 1) :
                  LET between == (At(k) + 1)..(At(k + 1) - 1)
                  IN  IF Level(k) < Level(k + 1)
                      THEN /\ Cardinality(between) = Level(k + 1) - Level(k)
                           /\ \A n \in between : IsOpenLine(tocLines[n])
                      ELSE /\ Cardinality(between) = Level(k) - Level(k + 1)
                           /\ \A n \in between : IsCloseLine(tocLines[n])

\* C6 witness: the table of levels [1,4] was built, three lists opened between
\* its two items.
C6_Witness ==
    /\ lastCommand = "createTOC"
    /\ prevText = GapToc
    /\ Outline(tocLines) =
          << "<ul>", <<"a">>, "<ul>", "<ul>", "<ul>", <<"b">>,
             "</ul>", "</ul>", "</ul>", "</ul>" >>

\* C7: an addIds run over a document whose matched headings all hold 'id='
\* produces no edit and leaves the document unchanged.
C7_AllWithIdsNoEdit ==
    LET ms == HeaderMatches(prevText)
    IN  ( /\ lastCommand = "addIds"
          /\ \A k \in DOMAIN ms : Includes(ms[k].attributes, IdEq) )
        => (edits = <<>> /\ issued = <<>> /\ fullText = prevText)

\* C7 witness: such a run ended, over a document with matched headings.
C7_Witness ==
    LET ms == HeaderMatches(prevText)
    IN  /\ lastCommand = "addIds"
        /\ Len(ms) = MaxHeadings
        /\ \A k \in DOMAIN ms : Includes(ms[k].attributes, IdEq)
        /\ edits = <<>>
        /\ message = "IDs added to headers without one!"

\* C8 as stated: every value slugify returns is non-empty.
C8_SlugNonEmpty ==
    \A k \in DOMAIN issued : issued[k] # <<>>

\* C9 as stated: with an empty set of heading levels every command finds no
\* match, ends as 'nothing to do' and produces no edit.
C9_NoLevelsNothingToDo ==
    (Len(GetHeadersToProcess(headers)) = 0 /\ lastCommand # "none") =>
        /\ message \in NothingToDo
        /\ edits = <<>>
        /\ fullText = prevText

\* C10 as stated: no identifier generated in an addIds run equals the id a
\* heading of the document already carried.
C10_IssuedAvoidExisting ==
    lastCommand = "addIds" =>
        LET ms == TocMatches(prevText)
        IN  \A m \in DOMAIN ms : \A k \in DOMAIN issued : issued[k] # ms[m].id

====
